---- MODULE Spec2Model ----
(***************************************************************************)
(* Model of price.py: the multi-store price tracker.                       *)
(*                                                                         *)
(*  - clean_price_text, get_store_price: operators computed as the code    *)
(*    computes them; get_store_price returns, next to its (data, error)    *)
(*    pair, the log of the HTTP requests and sleeps it made.               *)
(*  - start_monitoring (the background thread) and submit (the web         *)
(*    thread) as processes over the alerts file, interleaved at the        *)
(*    load_alerts / save_alerts calls (Spec, LiveSpec), and one sweep on   *)
(*    its own over one alert (IterSpec).                                   *)
(*    IdSpec is Spec with two submissions to come.                         *)
(*  - load_alerts and save_alerts step by step under file_lock (LockSpec). *)
(*  - the requests and sleeps of the get_store_price calls of the two     *)
(*    threads, in time (RateSpec).                                         *)
(*  - extract_sku (ExtractSpec) and clean_price_text (ParseSpec) applied   *)
(*    to bounded sets of texts.                                            *)
(*                                                                         *)
(* Python values: a dict is a record (a missing key is a missing field),   *)
(* None is the record PyNone, a text is a tuple of one-character strings,  *)
(* a price is a whole number of cents, a time is a whole number of         *)
(* seconds since the process started.                                      *)
(***************************************************************************)
EXTENDS Integers, Sequences, FiniteSets, TLC

VARIABLES
    now,              \* wall clock, seconds since the process started
    file,             \* ALERTS_FILE: [valid, list], list the alert dicts in it
    mpc,              \* start_monitoring: position in the loop
    alerts,           \* start_monitoring: the list loaded by this sweep
    idx,              \* start_monitoring: 1-based position of the loop in alerts
    updated_alerts,   \* start_monitoring: the list to save
    spc,              \* submit: position in the handler
    new_alert,        \* submit: the alert dict it created
    salerts,          \* submit: the list it loaded
    sweeps,           \* number of sweeps begun
    submits,          \* number of alerts created
    sweep_end,        \* how the last sweep to end ended: "none", "saved",
                      \* "aborted", "save_failed", "load_raised"
    load_failed,      \* this sweep's load_alerts met an unreadable file
    fetched,          \* uids whose stores this sweep has fetched
    hits,             \* uids for which this sweep saw a qualifying record
    sent,             \* gateway calls of this sweep: [uid, t, ok, stores (the
                      \* number fetched before the call), datas (what they
                      \* returned), fields, since]
    last_ok,          \* uid -> time of the last send the gateway accepted
    ever_saved,       \* uids of the alerts ever written to the file
    fin,              \* get_store_price call under test: its arguments
    fout,             \* get_store_price call under test: what it returned
    file_lock,        \* file_lock: the thread that holds it, "free" when none
    lpc,              \* per thread: its position inside load_alerts / save_alerts
    got,              \* per thread: the list its last load_alerts returned
    larg,             \* per thread: the list it is saving
    torn,             \* a load read the file while a save was half way
    calls,            \* per thread: the store keys it has yet to fetch
    rio,              \* per thread: the requests and sleeps of its current
                      \* get_store_price call that are yet to run
    nap,              \* per thread: seconds left of the time.sleep it is in
    ago,              \* per store: [secs |-> seconds since the last request
                      \* to its host], PyNone before the first request
    closest           \* per store: [secs |-> the shortest time seen between
                      \* two successive requests to its host]

vars == <<now, file, mpc, alerts, idx, updated_alerts, spc, new_alert,
          salerts, sweeps, submits, sweep_end, load_failed, fetched, hits,
          sent, last_ok, ever_saved, fin, fout, file_lock, lpc, got, larg,
          torn, calls, rio, nap, ago, closest>>

monitor_vars == <<mpc, alerts, idx, updated_alerts, sweeps, sweep_end,
                  load_failed, fetched, hits, sent, last_ok>>
submit_vars  == <<spc, new_alert, salerts, submits>>
fetch_vars   == <<fin, fout>>
lock_vars    == <<file_lock, lpc, got, larg, torn>>
rate_vars    == <<calls, rio, nap, ago, closest>>

(* The threads that call load_alerts and save_alerts: the monitoring      *)
(* thread (line 520) and the threads of the web server that serve         *)
(* /submit and /status.                                                   *)
LockThreads == {"monitor", "web1", "web2"}

(* No thread is inside load_alerts or save_alerts. *)
LockIdle ==
    /\ file_lock = "free"
    /\ lpc = [t \in LockThreads |-> "out"]
    /\ got = [t \in LockThreads |-> <<>>]
    /\ larg = [t \in LockThreads |-> <<>>]
    /\ torn = FALSE

----------------------------------------------------------------------------
(* Configuration, price.py lines 15 to 19. *)

RATE_LIMIT_DELAY == 2
MAX_RETRIES == 3

(* time.sleep(1800) at the end of each sweep, and timedelta(days=7). *)
SWEEP_INTERVAL == 1800
COOLDOWN == 604800

----------------------------------------------------------------------------
(* Python values. *)

PyNone == [None |-> TRUE]

(* Truthiness of a dict-or-None value: None and the empty dict are false. *)
Truthy(d) == d # PyNone /\ DOMAIN d # {}

(* dict.get(key, default) *)
Get(d, key, default) == IF key \in DOMAIN d THEN d[key] ELSE default

(* d[key] = value on a copy of d *)
Put(d, key, value) ==
    [k \in DOMAIN d \cup {key} |-> IF k = key THEN value ELSE d[k]]

Digits == {"0", "1", "2", "3", "4", "5", "6", "7", "8", "9"}

DigitVal(c) ==
    CASE c = "0" -> 0 [] c = "1" -> 1 [] c = "2" -> 2 [] c = "3" -> 3
      [] c = "4" -> 4 [] c = "5" -> 5 [] c = "6" -> 6 [] c = "7" -> 7
      [] c = "8" -> 8 [] c = "9" -> 9

(* The characters of s that are in keep, in order. *)
RECURSIVE Filter(_, _)
Filter(s, keep) ==
    IF s = <<>> THEN <<>>
    ELSE IF Head(s) \in keep THEN <<Head(s)>> \o Filter(Tail(s), keep)
         ELSE Filter(Tail(s), keep)

(* The characters of s that are not in drop, in order. *)
RECURSIVE Remove(_, _)
Remove(s, drop) ==
    IF s = <<>> THEN <<>>
    ELSE IF Head(s) \in drop THEN Remove(Tail(s), drop)
         ELSE <<Head(s)>> \o Remove(Tail(s), drop)

(* str.strip(): leading and trailing blanks removed. *)
RECURSIVE LStrip(_)
LStrip(s) == IF s # <<>> /\ Head(s) = " " THEN LStrip(Tail(s)) ELSE s

RECURSIVE RStrip(_)
RStrip(s) ==
    IF s # <<>> /\ s[Len(s)] = " " THEN RStrip(SubSeq(s, 1, Len(s) - 1)) ELSE s

Strip(s) == RStrip(LStrip(s))

(* s[:n] *)
Prefix(s, n) == IF Len(s) <= n THEN s ELSE SubSeq(s, 1, n)

(* Length of the longest run of digits of s that starts at position p. *)
RECURSIVE DigitRun(_, _)
DigitRun(s, p) ==
    IF p > Len(s) \/ s[p] \notin Digits THEN 0 ELSE 1 + DigitRun(s, p + 1)

(* Value of the digit string s[p .. p+n-1]. *)
RECURSIVE DigitsVal(_, _, _)
DigitsVal(s, p, n) ==
    IF n = 0 THEN 0
    ELSE 10 * DigitsVal(s, p, n - 1) + DigitVal(s[p + n - 1])

(* The position p itself, digit or not. *)
FirstDigitOrStart(s, p) == p

(* Position of the first digit of s at or after p, 0 when there is none. *)
RECURSIVE FirstDigit(_, _)
FirstDigit(s, p) ==
    IF p > Len(s) THEN 0
    ELSE IF s[p] \in Digits THEN p ELSE FirstDigit(s, p + 1)

----------------------------------------------------------------------------
(* clean_price_text, lines 276 to 291.  The result is PyNone or            *)
(* [value |-> cents]: float("12.5") is 1250 cents.                         *)

Min(a, b) == IF a < b THEN a ELSE b

clean_price_text(price_text) ==
    IF price_text = <<>> THEN PyNone
    ELSE
      LET \* price_text.replace(',', '') then re.sub(r'[^\d.,]', '', ...)
          cleaned == Filter(Remove(price_text, {","}), Digits \cup {".", ","})
          \* re.search(r'\d+(?:\.\d{1,2})?', cleaned): leftmost, greedy
          p  == FirstDigit(cleaned, 1)
          n  == DigitRun(cleaned, p)
          q  == p + n
          fr == IF q <= Len(cleaned) /\ cleaned[q] = "."
                THEN Min(DigitRun(cleaned, q + 1), 2) ELSE 0
          cents == 100 * DigitsVal(cleaned, p, n)
                   + (IF fr = 0 THEN 0
                      ELSE IF fr = 1 THEN 10 * DigitsVal(cleaned, q + 1, 1)
                      ELSE DigitsVal(cleaned, q + 1, 2))
      IN IF p = 0 THEN PyNone ELSE [value |-> cents]

----------------------------------------------------------------------------
(* STORES, lines 43 to 190: the entries of two of the seven stores.        *)

STORES ==
    [coles |->
       [base |-> "https://www.coles.com.au",
        search |-> "/search?q={sku}",
        price_selectors |-> <<"span.price__value", ".price-dollars",
                              "[data-testid='price-value']", ".price">>,
        name_selectors |-> <<"h1[data-testid='product-title']", ".product-name",
                             "h1.product-title", "a[data-testid='product-link']">>,
        image_selectors |-> <<"img[data-testid='product-image']",
                              ".product-image img", ".product-tile__image img",
                              "img.product-image">>],
     ebay |->
       [base |-> "https://www.ebay.com.au",
        search |-> "/sch/i.html?_nkw={sku}",
        price_selectors |-> <<".s-item__price", ".notranslate",
                              ".s-item__detail--primary .s-item__price">>,
        name_selectors |-> <<".s-item__title", "h3.s-item__title">>,
        image_selectors |-> <<".s-item__image img", "img.s-item__image",
                              ".s-item__wrapper img">>]]

(* list(STORES.keys()) *)
StoreKeys == <<"coles", "ebay">>

(* str.capitalize() on the store keys in use. *)
Capitalize(store_key) ==
    CASE store_key = "coles" -> "Coles"
      [] store_key = "ebay" -> "Ebay"
      [] store_key = "aldi" -> "Aldi"

(* urljoin(base, ref) for a relative ref, kept symbolic. *)
urljoin(base, ref) == <<base, ref>>

(* soup.select_one(selector): the first element the selector matches, kept *)
(* in the page as a map from selector to element; PyNone when none does.   *)
select_one(page, selector) == Get(page.els, selector, PyNone)

(* element.get_text(strip=True) *)
get_text(el) == Strip(Get(el, "text", <<>>))

(* `if price:` on a float-or-None: None and 0.0 are false. *)
PriceTruthy(price) == price # PyNone /\ price.value # 0

----------------------------------------------------------------------------
(* The alerts file, lines 193 to 206.  A file is [valid, list]: valid says *)
(* whether it exists and holds JSON, list is the list of alert dicts it    *)
(* holds (empty when it is not valid).                                     *)

(* A file that json.load cannot read, such as the empty file an earlier   *)
(* run left when it was stopped between open(ALERTS_FILE, 'w') and the    *)
(* end of json.dump.                                                      *)
BrokenFile == [valid |-> FALSE, list |-> <<>>]

(* Lines 193 to 200: FileNotFoundError and JSONDecodeError give []. *)
load_alerts(f) == IF f.valid THEN f.list ELSE <<>>

(* Lines 202 to 206: the file after a save that went through. *)
save_alerts_pending(list) ==
    [valid |-> TRUE, list |-> SelectSeq(list, LAMBDA a : ~a.notified)]

save_alerts(list) == [valid |-> TRUE, list |-> list]

(* What the file system does to a save: it goes through, or open() raises *)
(* OSError and the file stays as it was.                                  *)
SaveOutcomes == {"written", "OSError"}

(* What the file system does to a load: the file is read (or found        *)
(* missing or not JSON), or open() raises an OSError that load_alerts     *)
(* does not catch.                                                        *)
LoadOutcomes == {"read", "OSError"}

after_save(f, list, outcome) == IF outcome = "written" THEN save_alerts(list) ELSE f

----------------------------------------------------------------------------
(* get_store_price, lines 363 to 453.                                      *)

(* Lines 390 to 398: the walk over store["price_selectors"], from the k-th *)
(* selector on, with the values price and price_text hold so far.          *)
RECURSIVE price_walk(_, _, _, _, _)
price_walk(page, selectors, k, price, price_text) ==
    IF k > Len(selectors) THEN [price |-> price, price_text |-> price_text]
    ELSE LET price_el == select_one(page, selectors[k])
         IN IF price_el = PyNone
            THEN price_walk(page, selectors, k + 1, price, price_text)
            ELSE LET text == get_text(price_el)
                     parsed == clean_price_text(text)
                 IN IF PriceTruthy(parsed)
                    THEN [price |-> parsed, price_text |-> text]
                    ELSE price_walk(page, selectors, k + 1, parsed, text)

(* Lines 401 to 407: the walk over store["name_selectors"]; name is PyNone  *)
(* or [text |-> the text read last].                                       *)
RECURSIVE name_walk(_, _, _, _)
name_walk(page, selectors, k, name) ==
    IF k > Len(selectors) THEN name
    ELSE LET name_el == select_one(page, selectors[k])
         IN IF name_el = PyNone
            THEN name_walk(page, selectors, k + 1, name)
            ELSE LET text == get_text(name_el)
                 IN IF text # <<>> /\ Len(text) > 3
                    THEN [text |-> text]
                    ELSE name_walk(page, selectors, k + 1, [text |-> text])

(* Lines 410 to 417: the walk over store["image_selectors"]. *)
RECURSIVE image_walk(_, _, _, _)
image_walk(page, base, selectors, k) ==
    IF k > Len(selectors) THEN PyNone
    ELSE LET img_el == select_one(page, selectors[k])
         IN IF img_el # PyNone /\ "src" \in DOMAIN img_el
            THEN IF img_el.src.http THEN [url |-> <<img_el.src.ref>>]
                 ELSE [url |-> urljoin(base, img_el.src.ref)]
            ELSE image_walk(page, base, selectors, k + 1)

(* f"Product {sku}" *)
ProductLabel(sku) == <<"P", "r", "o", "d", "u", "c", "t", " ">> \o sku

(* Lines 449 to 453. *)
FailedRecordBare(store_key, retries) ==
    [store |-> Capitalize(store_key), available |-> FALSE]

FailedRecord(store_key, retries) ==
    [store |-> Capitalize(store_key), available |-> FALSE,
     error |-> [msg |-> "Failed after attempts", retries |-> retries]]

(* Line 380: `for attempt in range(retries)` is over. *)
LoopOverEarly(attempt, retries) == attempt >= retries - 1

LoopOver(attempt, retries) == attempt >= retries

(* Line 443: 2 ** attempt *)
BackoffFixed(attempt) == 2

Backoff(attempt) == 2 ^ attempt

(* Line 442: the sleep is skipped after the last attempt. *)
SleepsAfter(attempt, retries) == attempt < retries - 1

(* Lines 440 to 447 with `continue` in both handlers. *)
RetriesAfterAny(kind) == kind \in {"RequestException", "Exception"}

(* Lines 440 to 447: `except requests.RequestException` ends in           *)
(* `continue`, `except Exception` in `break`.                             *)
RetriesAfter(kind) == kind = "RequestException"

(* Lines 387 to 438: a response whose status is good. *)
parse_page(store_key, sku, page, io) ==
    LET store == STORES[store_key]
        search_url == urljoin(store.base, <<store.search, sku>>)
        pw == price_walk(page, store.price_selectors, 1, PyNone, <<>>)
        walked == name_walk(page, store.name_selectors, 1, PyNone)
        image == image_walk(page, store.base, store.image_selectors, 1)
        \* `if not name`: None and the empty text are false
        name == IF walked = PyNone THEN ProductLabel(sku)
                ELSE IF walked.text = <<>> THEN ProductLabel(sku)
                ELSE walked.text
    IN IF ~PriceTruthy(pw.price)
       THEN [data |-> PyNone,
             error |-> [msg |-> "No price found", tried |-> pw.price_text],
             io |-> io]
       ELSE [data |-> [price |-> pw.price.value,
                       name |-> Prefix(name, 100),
                       image |-> image,
                       url |-> search_url,
                       store |-> Capitalize(store_key),
                       available |-> TRUE],
             error |-> PyNone,
             io |-> Append(io, [op |-> "sleep", secs |-> RATE_LIMIT_DELAY])]

(* Lines 380 to 453: the attempts from `attempt` on; http[k] is what the   *)
(* k-th requests.get of the call meets, io the requests and sleeps so far. *)
RECURSIVE attempts(_, _, _, _, _, _)
attempts(store_key, sku, retries, http, attempt, io) ==
    IF LoopOver(attempt, retries)
    THEN [data |-> FailedRecord(store_key, retries), error |-> PyNone, io |-> io]
    ELSE LET r == http[attempt + 1]
             io1 == Append(io, [op |-> "get", store |-> store_key])
         IN IF RetriesAfter(r.kind)
            THEN attempts(store_key, sku, retries, http, attempt + 1,
                          IF SleepsAfter(attempt, retries)
                          THEN Append(io1, [op |-> "sleep", secs |-> Backoff(attempt)])
                          ELSE io1)
            ELSE IF r.kind = "Exception"
            THEN [data |-> FailedRecord(store_key, retries),
                  error |-> PyNone, io |-> io1]
            ELSE parse_page(store_key, sku, r.page, io1)

get_store_price(store_key, sku, retries, http) ==
    IF store_key \notin DOMAIN STORES
    THEN [data |-> PyNone,
          error |-> [msg |-> "Unknown store", store_key |-> store_key],
          io |-> <<>>]
    ELSE attempts(store_key, sku, retries, http, 0, <<>>)

----------------------------------------------------------------------------
(* What the network can answer to a requests.get.                          *)

Sku123456 == <<"1", "2", "3", "4", "5", "6">>

Txt1999 == <<"$", "1", "9", ".", "9", "9">>
Txt75   == <<"$", "7", "5", ".", "0", "0">>
Txt90   == <<" ", "$", "9", "0", " ">>
TxtFree == <<"F", "r", "e", "e">>
TxtZero == <<"$", "0", ".", "0", "0">>
TxtMilk == <<"M", "i", "l", "k", " ", "2", "L">>
TxtAbc  == <<"a", "b", "c">>

El(text) == [text |-> text]

(* A page in which the first price selector of each store finds p1, the   *)
(* second finds p2 and the first name selector finds n1; PyNone stands    *)
(* for a selector that matches no element.                                *)
MakePage(p1, p2, n1) ==
    LET P1 == {STORES[k].price_selectors[1] : k \in DOMAIN STORES}
        P2 == {STORES[k].price_selectors[2] : k \in DOMAIN STORES}
        N1 == {STORES[k].name_selectors[1] : k \in DOMAIN STORES}
        dom == (IF p1 = PyNone THEN {} ELSE P1)
               \cup (IF p2 = PyNone THEN {} ELSE P2)
               \cup (IF n1 = PyNone THEN {} ELSE N1)
    IN [els |-> [sel \in dom |->
                   IF sel \in P1 THEN p1 ELSE IF sel \in P2 THEN p2 ELSE n1]]

RespTransport == [kind |-> "RequestException"]
RespError     == [kind |-> "Exception"]
RespPage(page) == [kind |-> "page", page |-> page]

FetchPages ==
    { MakePage(El(Txt1999), PyNone, El(TxtMilk)),
      MakePage(PyNone, El(Txt1999), PyNone),
      MakePage(El(TxtFree), PyNone, El(TxtAbc)),
      MakePage(PyNone, PyNone, PyNone),
      MakePage(El(TxtZero), PyNone, El(TxtMilk)),
      MakePage(El(TxtFree), El(Txt75), El(TxtAbc)),
      MakePage(El(Txt1999), El(Txt75), El(TxtMilk)),
      MakePage(El(TxtZero), El(Txt75), El(TxtMilk)) }

FetchResponses == {RespTransport, RespError} \cup {RespPage(p) : p \in FetchPages}

(* Store keys a caller can pass: the known ones and an unknown one. *)
FetchKeys == DOMAIN STORES \cup {"aldi"}

----------------------------------------------------------------------------
(* The state the other specification starts from; the specification of    *)
(* get_store_price leaves it alone.                                       *)

(* The threads that call get_store_price: the monitoring thread (line     *)
(* 481) and a thread of the web server that serves /submit (line 883).    *)
RateThreads == {"monitor", "web"}

(* No thread has a get_store_price call to make, and no request was made. *)
RateIdle ==
    /\ calls = [t \in RateThreads |-> <<>>]
    /\ rio = [t \in RateThreads |-> <<>>]
    /\ nap = [t \in RateThreads |-> 0]
    /\ ago = [s \in DOMAIN STORES |-> PyNone]
    /\ closest = [s \in DOMAIN STORES |-> PyNone]

IdleRest ==
    /\ now = 0 /\ file = save_alerts(<<>>)
    /\ mpc = "load" /\ alerts = <<>> /\ idx = 1 /\ updated_alerts = <<>>
    /\ spc = "idle" /\ new_alert = PyNone /\ salerts = <<>>
    /\ sweeps = 0 /\ submits = 0 /\ sweep_end = "none" /\ load_failed = FALSE
    /\ fetched = {} /\ hits = {} /\ sent = <<>> /\ last_ok = <<>>
    /\ ever_saved = {}
    /\ LockIdle

(* Specification of a single get_store_price call: every store key and    *)
(* every run of MAX_RETRIES answers of the network.                       *)
FetchInit ==
    /\ IdleRest /\ RateIdle
    /\ fin \in [store_key : FetchKeys, sku : {Sku123456},
                 http : [1..MAX_RETRIES -> FetchResponses]]
    /\ fout = PyNone

FetchCall ==
    /\ fout = PyNone
    /\ fout' = get_store_price(fin.store_key, fin.sku, MAX_RETRIES, fin.http)
    /\ UNCHANGED <<now, file, monitor_vars, submit_vars, ever_saved, fin,
                   lock_vars, rate_vars>>

FetchNext == FetchCall

FetchSpec == FetchInit /\ [][FetchNext]_vars

(* The sleeps and the requests of a returned call, in order. *)
Sleeps(io) == [i \in 1..Len(SelectSeq(io, LAMBDA e : e.op = "sleep")) |->
                 SelectSeq(io, LAMBDA e : e.op = "sleep")[i].secs]
Requests(io) == Len(SelectSeq(io, LAMBDA e : e.op = "get"))

AllTransport(http) == \A k \in DOMAIN http : http[k] = RespTransport

----------------------------------------------------------------------------
(* Bounds of the model. *)

MaxInitAlerts == 1   \* alerts in the file when the process starts
MaxSweeps == 2       \* sweeps of the monitoring loop
MaxSubmits == 1      \* requests the submit handler serves

----------------------------------------------------------------------------
(* Alerts.  The file outlives the process (lines 38 to 40 create it only   *)
(* when it is missing), so at start it holds what earlier runs and earlier *)
(* versions wrote: the loop itself reads alert['discount_rate'],           *)
(* alert.get('target_price', ...) and 'trigger_time' in alert.  uid is the *)
(* identity of the record in the model; the program does not store it.     *)

(* The product URL of the alerts: "https://shop.com/product/name-123456". *)
ProductUrl ==
    <<"h", "t", "t", "p", "s", ":", "/", "/", "s", "h", "o", "p", ".", "c", "o", "m",
      "/", "p", "r", "o", "d", "u", "c", "t", "/", "n", "a", "m", "e", "-">>
    \o Sku123456

OldAlert(uid) ==
    [uid |-> uid, id |-> [t |-> 0 - uid, sku |-> Sku123456], url |-> ProductUrl,
     sku |-> Sku123456, retail_price |-> 10000, stores |-> <<"coles">>,
     notified |-> FALSE, created_at |-> 0 - uid]

(* Written by submit in an earlier run: target_price, no discount_rate,   *)
(* every store.                                                           *)
SubmittedAlert(uid) ==
    Put(Put(OldAlert(uid), "target_price", 8000), "stores", StoreKeys)

(* A record that carries discount_rate next to target_price. *)
RateAlert(uid) == Put(Put(OldAlert(uid), "target_price", 8000), "discount_rate", 20)

(* A record that carries discount_rate alone, notified exactly seven days *)
(* before the process started.                                            *)
NotifiedAlert(uid) ==
    Put(Put(Put(OldAlert(uid), "discount_rate", 20), "notified", TRUE),
        "trigger_time", 0 - COOLDOWN)

AlertsAt(uid) == {SubmittedAlert(uid), RateAlert(uid), NotifiedAlert(uid)}

InitFiles ==
    UNION {{f \in [1..n -> UNION {AlertsAt(u) : u \in 1..n}] :
              \A k \in 1..n : f[k] \in AlertsAt(k)} : n \in 0..MaxInitAlerts}

Uids(list) == {list[k].uid : k \in 1..Len(list)}

(* The sends the gateway accepted before the process started. *)
SentBefore(list) ==
    LET N == {k \in 1..Len(list) : list[k].notified /\ "trigger_time" \in DOMAIN list[k]}
    IN [u \in {list[k].uid : k \in N} |->
          list[CHOOSE k \in N : list[k].uid = u].trigger_time]

----------------------------------------------------------------------------
(* start_monitoring, lines 456 to 517.                                     *)

(* Line 466: `if alert.get('notified')` *)
IsNotifiedNever(a) == FALSE

IsNotified(a) == Get(a, "notified", FALSE)

(* Line 470: datetime.now() - trigger_time > timedelta(days=7) *)
CooldownOverInclusive(t, trigger_time) == t - trigger_time >= COOLDOWN

CooldownOver(t, trigger_time) == t - trigger_time > COOLDOWN

(* Lines 466 to 474: an alert whose notified is true. *)
reset_check(a, t) ==
    IF "trigger_time" \in DOMAIN a /\ CooldownOver(t, a.trigger_time)
    THEN [a EXCEPT !.notified = FALSE]
    ELSE a

(* Line 483: alert.get('target_price', alert['retail_price'] *             *)
(* (1 - alert['discount_rate']/100)).  Python evaluates the default before *)
(* the call, so a dict without discount_rate raises KeyError whether or    *)
(* not it holds target_price.  The value is the threshold times 100.       *)
threshold(a) ==
    IF "retail_price" \notin DOMAIN a \/ "discount_rate" \notin DOMAIN a
    THEN [raised |-> TRUE]
    ELSE [raised |-> FALSE,
          times100 |-> IF "target_price" \in DOMAIN a THEN 100 * a.target_price
                       ELSE a.retail_price * (100 - a.discount_rate)]

(* Lines 482 to 486 with the comparison of line 484 left out. *)
check_store_available(a, data) ==
    IF Truthy(data) /\ Get(data, "available", FALSE)
    THEN IF threshold(a).raised THEN [raised |-> TRUE, match |-> FALSE]
         ELSE [raised |-> FALSE, match |-> TRUE]
    ELSE [raised |-> FALSE, match |-> FALSE]

(* Lines 482 to 486: what one fetched (data, error) does to the sweep. *)
check_store(a, data) ==
    IF Truthy(data) /\ Get(data, "available", FALSE)
    THEN IF threshold(a).raised THEN [raised |-> TRUE, match |-> FALSE]
         ELSE [raised |-> FALSE,
               match |-> 100 * data.price <= threshold(a).times100]
    ELSE [raised |-> FALSE, match |-> FALSE]

(* Lines 480 to 486: the walk over alert.get('stores', []) from the k-th  *)
(* store on; datas[k] is the data get_store_price returns for it.  The    *)
(* result tells whether an exception left the loop, the matches, and the  *)
(* number of stores fetched.                                              *)
RECURSIVE stores_walk(_, _, _, _)
stores_walk(a, datas, k, matched) ==
    IF k > Len(Get(a, "stores", <<>>))
    THEN [raised |-> FALSE, matched |-> matched, fetched |-> k - 1]
    ELSE LET c == check_store(a, datas[k])
         IN IF c.raised
            THEN [raised |-> TRUE, matched |-> matched, fetched |-> k]
            ELSE stores_walk(a, datas, k + 1,
                             IF c.match THEN Append(matched, datas[k])
                             ELSE matched)

(* Lines 493 to 501: one field per matched store. *)
fields_of_first(a, matched) ==
    [k \in 1..1 |->
       [name |-> matched[k].store,
        savings |-> a.retail_price - matched[k].price,
        inline |-> TRUE]]

fields_of(a, matched) ==
    [k \in 1..Len(matched) |->
       [name |-> matched[k].store,
        savings |-> a.retail_price - matched[k].price,
        inline |-> TRUE]]

(* Lines 504 to 506 without the test of line 503. *)
after_send_unchecked(a, matched, ok, t) ==
    Put(Put(Put(a, "notified", TRUE), "trigger_time", t), "deals_found", matched)

(* Lines 503 to 506 without line 505. *)
after_send_unstamped(a, matched, ok, t) ==
    IF ok
    THEN Put(Put(a, "notified", TRUE), "deals_found", matched)
    ELSE a

(* Lines 503 to 506: the alert after the gateway answered. *)
after_send(a, matched, ok, t) ==
    IF ok
    THEN Put(Put(Put(a, "notified", TRUE), "trigger_time", t),
             "deals_found", matched)
    ELSE a

(* The answers of the network during a sweep: each call meets the same    *)
(* answer at every attempt.                                               *)
MonitorResponses ==
    { RespTransport,
      RespPage(MakePage(El(Txt75), PyNone, El(TxtMilk))),
      RespPage(MakePage(El(Txt90), PyNone, El(TxtMilk))),
      RespPage(MakePage(El(TxtFree), PyNone, PyNone)) }

MonitorHttp == {[k \in 1..MAX_RETRIES |-> r] : r \in MonitorResponses}

(* What get_store_price(store_key, sku) can return during a sweep. *)
MonitorDatas ==
    [store_key \in DOMAIN STORES |->
       {get_store_price(store_key, Sku123456, MAX_RETRIES, http).data :
          http \in MonitorHttp}]

(* One returned data for each store of the alert. *)
MonitorRuns(a) ==
    LET stores == Get(a, "stores", <<>>)
        all == UNION {MonitorDatas[k] : k \in DOMAIN STORES}
    IN {d \in [1..Len(stores) -> all] :
          \A k \in 1..Len(stores) : d[k] \in MonitorDatas[stores[k]]}

(* A record that meets the alert's target price (for the properties):    *)
(* target_price, or retail_price less discount_rate percent for an alert  *)
(* that holds no target_price.                                            *)
Qualifies(a, data) ==
    /\ Truthy(data) /\ Get(data, "available", FALSE)
    /\ IF "target_price" \in DOMAIN a THEN data.price <= a.target_price
       ELSE IF "retail_price" \in DOMAIN a /\ "discount_rate" \in DOMAIN a
            THEN 100 * data.price <= a.retail_price * (100 - a.discount_rate)
       ELSE FALSE

Cur == alerts[idx]
InLoop == mpc = "for" /\ idx <= Len(alerts)

(* Line 513: `except Exception` around the body of the sweep.  When the   *)
(* handler catches the exception the loop goes on to its sleep; an        *)
(* exception it does not catch ends the thread.                           *)
CaughtKeyErrorOnly(exc) == exc = "KeyError"

Caught(exc) == exc \in {"KeyError", "OSError"}

after_raise(exc) == IF Caught(exc) THEN "sleep" ELSE "dead"

(* Lines 462 and 463.  load_alerts returns the list of the file, or [] for *)
(* a file it cannot read; an OSError of open() other than                  *)
(* FileNotFoundError leaves load_alerts and goes to the handler at line    *)
(* 513.                                                                    *)
MLoad ==
    /\ mpc = "load" /\ sweeps < MaxSweeps
    /\ \E outcome \in LoadOutcomes :
         IF outcome = "read"
         THEN /\ alerts' = load_alerts(file)
              /\ load_failed' = ~file.valid
              /\ mpc' = "for"
              /\ UNCHANGED sweep_end
         ELSE /\ alerts' = <<>>
              /\ load_failed' = TRUE
              /\ mpc' = after_raise(outcome)
              /\ sweep_end' = "load_raised"
    /\ updated_alerts' = <<>>
    /\ idx' = 1
    /\ sweeps' = sweeps + 1
    /\ UNCHANGED <<now, file, fetched, hits, sent, last_ok,
                   submit_vars, ever_saved, fetch_vars, lock_vars, rate_vars>>

(* Lines 466 to 475: an iteration on a notified alert; nothing is fetched. *)
MNotified ==
    /\ InLoop /\ IsNotified(Cur)
    /\ updated_alerts' = Append(updated_alerts, reset_check(Cur, now))
    /\ idx' = idx + 1
    /\ UNCHANGED <<now, file, mpc, alerts, sweeps, sweep_end, load_failed,
                   fetched, hits, sent, last_ok, submit_vars, ever_saved,
                   fetch_vars, lock_vars, rate_vars>>

(* Lines 477 to 508: an iteration on a pending alert: every store is      *)
(* fetched, then the gateway is called when some store matched.  An       *)
(* exception leaves the for loop for the handler at line 513, and the     *)
(* sweep saves nothing.                                                   *)
MPending ==
    /\ InLoop /\ ~IsNotified(Cur)
    /\ \E datas \in MonitorRuns(Cur) :
         LET w == stores_walk(Cur, datas, 1, <<>>)
         IN /\ fetched' = IF w.fetched > 0 THEN fetched \cup {Cur.uid} ELSE fetched
            /\ hits' = IF \E k \in 1..w.fetched : Qualifies(Cur, datas[k])
                       THEN hits \cup {Cur.uid} ELSE hits
            /\ IF w.raised
               THEN /\ mpc' = after_raise("KeyError") /\ sweep_end' = "aborted"
                    /\ UNCHANGED <<idx, updated_alerts, sent, last_ok>>
               ELSE /\ idx' = idx + 1
                    /\ UNCHANGED <<mpc, sweep_end>>
                    /\ IF w.matched # <<>>
                       THEN \E ok \in BOOLEAN :
                              /\ sent' = Append(sent,
                                     [uid |-> Cur.uid, t |-> now, ok |-> ok,
                                      stores |-> w.fetched, datas |-> datas,
                                      fields |-> fields_of(Cur, w.matched),
                                      since |-> IF Cur.uid \in DOMAIN last_ok
                                                THEN <<now - last_ok[Cur.uid]>>
                                                ELSE <<>>])
                              /\ last_ok' = IF ok
                                            THEN [u \in DOMAIN last_ok \cup {Cur.uid} |->
                                                    IF u = Cur.uid THEN now
                                                    ELSE last_ok[u]]
                                            ELSE last_ok
                              /\ updated_alerts' =
                                   Append(updated_alerts,
                                          after_send(Cur, w.matched, ok, now))
                       ELSE /\ updated_alerts' = Append(updated_alerts, Cur)
                            /\ UNCHANGED <<sent, last_ok>>
    /\ UNCHANGED <<now, file, alerts, sweeps, load_failed, submit_vars,
                   ever_saved, fetch_vars, lock_vars, rate_vars>>

(* Line 510: save_alerts(updated_alerts); an OSError it raises goes to the *)
(* handler at line 513.                                                    *)
MSave ==
    /\ mpc = "for" /\ idx > Len(alerts)
    /\ \E outcome \in SaveOutcomes :
         /\ file' = after_save(file, updated_alerts, outcome)
         /\ IF outcome = "written"
            THEN /\ ever_saved' = ever_saved \cup Uids(updated_alerts)
                 /\ mpc' = "sleep" /\ sweep_end' = "saved"
            ELSE /\ ever_saved' = ever_saved
                 /\ mpc' = after_raise(outcome) /\ sweep_end' = "save_failed"
    /\ UNCHANGED <<now, alerts, idx, updated_alerts, sweeps, load_failed,
                   fetched, hits, sent, last_ok, submit_vars, fetch_vars, lock_vars, rate_vars>>

(* Line 517: time.sleep(1800).  The clock of the model advances here only; *)
(* the locals of the sweep are dead from here on.                          *)
MSleep ==
    /\ mpc = "sleep"
    /\ now' = now + SWEEP_INTERVAL
    /\ mpc' = "load"
    /\ alerts' = <<>> /\ updated_alerts' = <<>> /\ idx' = 1
    /\ load_failed' = FALSE
    /\ fetched' = {} /\ hits' = {} /\ sent' = <<>>
    /\ UNCHANGED <<file, sweeps, sweep_end, last_ok, submit_vars, ever_saved,
                   fetch_vars, lock_vars, rate_vars>>

----------------------------------------------------------------------------
(* submit, lines 843 to 924.  A form holds the fields the request sent;   *)
(* sku is what extract_sku returned for its url.                          *)

Forms ==
    { [url |-> ProductUrl, retail_price |-> 10000, target_price |-> 8000],
      [url |-> ProductUrl, retail_price |-> 10000, discount_rate |-> 20],
      [url |-> ProductUrl, retail_price |-> 10000],
      [url |-> ProductUrl, retail_price |-> 0, target_price |-> 8000],
      [url |-> <<>>, retail_price |-> 10000, target_price |-> 8000] }

SkuResults == {PyNone, [sku |-> Sku123456]}

(* Lines 853 to 875: the status of the early returns, 200 when none. *)
submit_check(form, sku) ==
    IF form.url = <<>> \/ form.retail_price <= 0 THEN 400
    ELSE IF "target_price" \notin DOMAIN form /\ "discount_rate" \notin DOMAIN form
         THEN 400
    ELSE IF sku = PyNone THEN 400
    ELSE 200

(* Lines 857 to 861. *)
target_of(form) ==
    IF "target_price" \in DOMAIN form THEN form.target_price
    ELSE (form.retail_price * (100 - form.discount_rate)) \div 100

(* Lines 894 to 904. *)
make_alert(form, sku, t, uid) ==
    [uid |-> uid, id |-> [t |-> t, sku |-> sku], url |-> form.url, sku |-> sku,
     retail_price |-> form.retail_price, target_price |-> target_of(form),
     stores |-> StoreKeys, notified |-> FALSE, created_at |-> t]

(* Lines 853 to 875: a request turned away with status 400; the handler  *)
(* returns before it touches the file.                                    *)
SubmitReject ==
    /\ spc = "idle" /\ submits < MaxSubmits
    /\ \E form \in Forms, sku \in SkuResults : submit_check(form, sku) # 200
    /\ UNCHANGED vars

(* Lines 894 to 906: the alert is built and the file loaded. *)
SubmitLoad ==
    /\ spc = "idle" /\ submits < MaxSubmits
    /\ \E form \in Forms, sku \in SkuResults :
         /\ submit_check(form, sku) = 200
         /\ new_alert' = make_alert(form, sku.sku, now, 100 + submits)
    /\ salerts' = load_alerts(file)
    /\ spc' = "save"
    /\ submits' = submits + 1
    /\ UNCHANGED <<now, file, monitor_vars, ever_saved, fetch_vars, lock_vars, rate_vars>>

(* Lines 907 and 908: alerts.append(alert); save_alerts(alerts).  An      *)
(* OSError ends the request with status 500.                              *)
SubmitSave ==
    /\ spc = "save"
    /\ \E outcome \in SaveOutcomes :
         /\ file' = after_save(file, Append(salerts, new_alert), outcome)
         /\ ever_saved' = IF outcome = "written"
                          THEN ever_saved \cup Uids(Append(salerts, new_alert))
                          ELSE ever_saved
    /\ spc' = "idle"
    /\ new_alert' = PyNone /\ salerts' = <<>>
    /\ UNCHANGED <<now, monitor_vars, submits, fetch_vars, lock_vars, rate_vars>>

----------------------------------------------------------------------------

Init ==
    /\ now = 0
    /\ file \in {save_alerts(list) : list \in InitFiles} \cup {BrokenFile}
    /\ ever_saved = Uids(file.list)
    /\ last_ok = SentBefore(file.list)
    /\ mpc = "load" /\ alerts = <<>> /\ idx = 1 /\ updated_alerts = <<>>
    /\ spc = "idle" /\ new_alert = PyNone /\ salerts = <<>>
    /\ sweeps = 0 /\ submits = 0 /\ sweep_end = "none" /\ load_failed = FALSE
    /\ fetched = {} /\ hits = {} /\ sent = <<>>
    /\ fin = PyNone /\ fout = PyNone
    /\ LockIdle /\ RateIdle

Next ==
    \/ MLoad \/ MNotified \/ MPending \/ MSave \/ MSleep
    \/ SubmitReject \/ SubmitLoad \/ SubmitSave

Spec == Init /\ [][Next]_vars

(* Specification of one sweep over a file of one alert, with nothing else *)
(* running: the alert is any of IterAlerts, most of them with two stores. *)
IterAlerts ==
    { Put(RateAlert(1), "stores", StoreKeys),
      Put(Put(RateAlert(1), "stores", StoreKeys), "target_price", 9500),
      Put(Put(OldAlert(1), "discount_rate", 20), "stores", StoreKeys),
      Put(Put(OldAlert(1), "discount_rate", 5), "stores", <<"ebay", "coles">>),
      [k \in DOMAIN RateAlert(1) \ {"stores"} |-> RateAlert(1)[k]],
      SubmittedAlert(1),
      NotifiedAlert(1) }

IterInit ==
    /\ now = 0
    /\ file \in {save_alerts(<<a>>) : a \in IterAlerts}
    /\ ever_saved = Uids(file.list)
    /\ last_ok = SentBefore(file.list)
    /\ mpc = "load" /\ alerts = <<>> /\ idx = 1 /\ updated_alerts = <<>>
    /\ spc = "idle" /\ new_alert = PyNone /\ salerts = <<>>
    /\ sweeps = MaxSweeps - 1 /\ submits = 0
    /\ sweep_end = "none" /\ load_failed = FALSE
    /\ fetched = {} /\ hits = {} /\ sent = <<>>
    /\ fin = PyNone /\ fout = PyNone
    /\ LockIdle /\ RateIdle

IterNext == MLoad \/ MNotified \/ MPending \/ MSave \/ MSleep

IterSpec == IterInit /\ [][IterNext]_vars

(* The monitoring thread is a daemon thread of its own (Thread(target=    *)
(* start_monitoring)): it is scheduled again and again, and every call it *)
(* makes returns (the requests have timeouts, the sleep is finite).       *)
MonitorNext == MLoad \/ MNotified \/ MPending \/ MSave \/ MSleep

LiveSpec == Init /\ [][Next]_vars /\ WF_vars(MonitorNext)

----------------------------------------------------------------------------
(* Properties of the monitoring loop and of submit, checked under Spec.    *)

(* The sweep is between its load and the end of its sleep: alerts,        *)
(* updated_alerts, fetched, hits and sent are those of this sweep, and    *)
(* updated_alerts[j] is the record the sweep made of alerts[j].  A sweep  *)
(* whose save the file system refused is left out of the properties       *)
(* about what a sweep writes back.                                        *)
SweepEnded == mpc = "sleep" /\ sweep_end # "save_failed"

(* The fields submit writes: target_price and no discount_rate. *)
SubmitFields(a) ==
    /\ {"sku", "retail_price", "target_price", "stores"} \subseteq DOMAIN a
    /\ "discount_rate" \notin DOMAIN a

FailedSend(uid) == \E k \in 1..Len(sent) : sent[k].uid = uid /\ ~sent[k].ok

(* C1: when a sweep ends, every pending alert it loaded that holds the    *)
(* fields submit writes, for which a store returned an available record   *)
(* with price <= target_price and whose gateway send did not fail, was    *)
(* written back by that sweep with notified = TRUE and a trigger_time.    *)
C1_NotifiedWrittenBack ==
    SweepEnded =>
      \A k \in 1..Len(alerts) :
        ( /\ ~IsNotified(alerts[k]) /\ SubmitFields(alerts[k])
          /\ alerts[k].uid \in hits /\ ~FailedSend(alerts[k].uid) )
        => /\ sweep_end = "saved"
           /\ Len(updated_alerts) >= k
           /\ updated_alerts[k].notified
           /\ "trigger_time" \in DOMAIN updated_alerts[k]

(* C2: a send the gateway accepted for an alert that it had accepted a    *)
(* send for before comes at least seven days after that earlier send.     *)
C2_OncePerWindow ==
    \A k \in 1..Len(sent) :
      (sent[k].ok /\ sent[k].since # <<>>) => sent[k].since[1] >= COOLDOWN

(* C3: a sweep that loaded more than one alert ends with a save, and the  *)
(* saved list holds a record of every alert it loaded (so an exception on *)
(* one alert costs no other alert its update).                            *)
C3_OthersStillSaved ==
    (SweepEnded /\ Len(alerts) > 1) =>
      /\ sweep_end = "saved"
      /\ \A k \in 1..Len(alerts) :
           \E j \in 1..Len(updated_alerts) : updated_alerts[j].uid = alerts[k].uid

(* C4: when neither a submission nor a sweep is under way, every alert    *)
(* that was ever saved to the file is in the file.                        *)
C4_NoAlertLost ==
    (spc = "idle" /\ mpc \in {"load", "sleep"}) => ever_saved \subseteq Uids(file.list)

(* C5 as stated: the record a sweep makes of a notified alert with a      *)
(* trigger_time is pending exactly when now - trigger_time >= 7 days.     *)
C5_ResetAtSevenDays ==
    \A j \in 1..Len(updated_alerts) :
      (IsNotified(alerts[j]) /\ "trigger_time" \in DOMAIN alerts[j]) =>
        (~updated_alerts[j].notified <=> now - alerts[j].trigger_time >= COOLDOWN)

(* C5 amended: the record a sweep makes of a notified alert with a        *)
(* trigger_time is pending exactly when now - trigger_time > 7 days, and  *)
(* nothing else of the alert changes; at exactly 7 days it stays notified. *)
C5_ResetAfterSevenDays ==
    \A j \in 1..Len(updated_alerts) :
      (IsNotified(alerts[j]) /\ "trigger_time" \in DOMAIN alerts[j]) =>
        /\ ~updated_alerts[j].notified <=> now - alerts[j].trigger_time > COOLDOWN
        /\ updated_alerts[j] = [alerts[j] EXCEPT !.notified = updated_alerts[j].notified]

(* A sweep re-armed a notified alert. *)
C5_Witness ==
    \E j \in 1..Len(updated_alerts) :
      /\ IsNotified(alerts[j]) /\ "trigger_time" \in DOMAIN alerts[j]
      /\ ~updated_alerts[j].notified

(* C6: a pending alert whose matches were sent and refused by the gateway *)
(* is put in the updated list as it was loaded (notified false, no        *)
(* trigger_time stamped), and every pending alert with stores that a      *)
(* sweep has been through was fetched in that sweep.                      *)
C6_FailedSendStaysPending ==
    /\ \A k \in 1..Len(sent) :
         ~sent[k].ok =>
           \E j \in 1..Len(updated_alerts) :
             /\ alerts[j].uid = sent[k].uid
             /\ updated_alerts[j] = alerts[j]
             /\ ~updated_alerts[j].notified
    /\ \A j \in 1..Len(updated_alerts) :
         (~IsNotified(alerts[j]) /\ Get(alerts[j], "stores", <<>>) # <<>>)
         => alerts[j].uid \in fetched

(* The gateway refused a send of this sweep. *)
C6_Witness == \E k \in 1..Len(sent) : ~sent[k].ok

(* C7: no store is fetched and no gateway send is made for an alert whose *)
(* notified flag was true when the sweep loaded it.                       *)
C7_NotifiedNotFetched ==
    \A k \in 1..Len(alerts) :
      Get(alerts[k], "notified", FALSE) =>
        /\ alerts[k].uid \notin fetched
        /\ \A e \in 1..Len(sent) : sent[e].uid # alerts[k].uid

(* A sweep went through a notified alert and fetched for a pending one. *)
C7_Witness ==
    /\ \E j \in 1..Len(updated_alerts) : Get(alerts[j], "notified", FALSE)
    /\ fetched # {}

----------------------------------------------------------------------------
(* Properties of get_store_price, checked under FetchSpec.                 *)

Returned == fout # PyNone
KnownStore == fin.store_key \in DOMAIN STORES

(* The first attempt that meets something else than a transport error,    *)
(* 0 when every attempt meets one.                                        *)
FirstAnswer(http) ==
    IF AllTransport(http) THEN 0
    ELSE CHOOSE k \in DOMAIN http :
           /\ http[k] # RespTransport
           /\ \A j \in 1..(k - 1) : http[j] = RespTransport

(* C8: when every attempt meets a transport error, the call makes exactly *)
(* MAX_RETRIES requests and returns a record with available = FALSE and   *)
(* an error, with no error string beside it.                              *)
C8_ExhaustedRetries ==
    (Returned /\ KnownStore /\ AllTransport(fin.http)) =>
      /\ Requests(fout.io) = MAX_RETRIES
      /\ fout.data # PyNone
      /\ fout.data.available = FALSE
      /\ "error" \in DOMAIN fout.data
      /\ fout.error = PyNone

C8_Witness == Returned /\ KnownStore /\ AllTransport(fin.http)

(* C9 as stated: a call whose three attempts meet a transport error       *)
(* sleeps 2^attempt seconds after each of them: 1, 2 and 4.               *)
C9_SleepAfterEachAttempt ==
    (Returned /\ KnownStore /\ AllTransport(fin.http)) =>
      Sleeps(fout.io) = [k \in 1..MAX_RETRIES |-> 2 ^ (k - 1)]

(* C9 amended: such a call sleeps 2^attempt seconds after each failed     *)
(* attempt but the last (1 s after attempt 0, 2 s after attempt 1), the   *)
(* delays strictly increase, and it returns right after the last request. *)
C9_SleepBetweenAttempts ==
    (Returned /\ KnownStore /\ AllTransport(fin.http)) =>
      /\ Sleeps(fout.io) = [k \in 1..(MAX_RETRIES - 1) |-> 2 ^ (k - 1)]
      /\ \A k \in 1..(Len(Sleeps(fout.io)) - 1) :
           Sleeps(fout.io)[k] < Sleeps(fout.io)[k + 1]
      /\ fout.io[Len(fout.io)].op = "get"

C9_Witness ==
    /\ Returned /\ KnownStore /\ AllTransport(fin.http)
    /\ Len(Sleeps(fout.io)) = MAX_RETRIES - 1

(* The call found a price. *)
Success == fout.data # PyNone /\ fout.data.available

(* C10 as stated: every call that finds no price returns a record with    *)
(* available = FALSE and an error.                                        *)
C10_FailureIsRecord ==
    (Returned /\ ~Success) =>
      /\ fout.data # PyNone
      /\ fout.data.available = FALSE
      /\ "error" \in DOMAIN fout.data

(* C10 amended: every call returns.  An unknown store key and a page with *)
(* no price give no record and an error string naming the cause; retries  *)
(* used up and an unexpected exception give a record with available =     *)
(* FALSE and an error.                                                    *)
C10_FailureIsReported ==
    Returned =>
      LET k == FirstAnswer(fin.http)
          absent(msg) == /\ fout.data = PyNone /\ fout.error # PyNone
                         /\ fout.error.msg = msg
          failed == /\ fout.data # PyNone /\ fout.data.available = FALSE
                    /\ "error" \in DOMAIN fout.data /\ fout.error = PyNone
      IN IF ~KnownStore THEN absent("Unknown store")
         ELSE IF k = 0 THEN failed
         ELSE IF fin.http[k] = RespError THEN failed
         ELSE Success \/ absent("No price found")

C10_Witness == Returned /\ ~Success /\ fout.data = PyNone

----------------------------------------------------------------------------
(* Properties of the alerts file under failures, checked under Spec.       *)

(* C11: a sweep whose load_alerts met a file that is missing or is not    *)
(* valid JSON writes nothing to the file: it does not end with a save.    *)
C11_FailedLoadWritesNothing ==
    (mpc = "sleep" /\ load_failed) => sweep_end # "saved"

(* C12, checked under LiveSpec: the monitoring thread never ends.  No     *)
(* exception ends it; every sweep that has begun comes to its sleep,      *)
(* whether it saved, was aborted while it processed an alert or had its   *)
(* save refused; the sleep lasts SWEEP_INTERVAL (30 minutes) and leads to *)
(* the load of the next sweep, which begins (as long as the model lets    *)
(* sweeps begin).                                                         *)
C12_LoopNeverEnds ==
    /\ [](mpc \in {"load", "for", "sleep"})
    /\ (mpc = "for") ~> (mpc = "sleep")
    /\ (mpc = "sleep") ~> (mpc = "load")
    /\ [][mpc = "sleep" => (mpc' = "load" /\ now' = now + SWEEP_INTERVAL)]_mpc
    /\ \A n \in 0..(MaxSweeps - 1) :
         (mpc = "load" /\ sweeps = n) ~> (sweeps = n + 1)

(* A sweep is under way after a sweep that an exception aborted. *)
C12_Witness ==
    /\ mpc = "for" /\ sweeps >= 2
    /\ sweep_end \in {"aborted", "save_failed", "load_raised"}

(* The notified flag and the trigger_time of two records are the same. *)
SameNotification(a, b) ==
    /\ Get(a, "notified", FALSE) = Get(b, "notified", FALSE)
    /\ ("trigger_time" \in DOMAIN a) = ("trigger_time" \in DOMAIN b)
    /\ ("trigger_time" \in DOMAIN a /\ "trigger_time" \in DOMAIN b)
         => a.trigger_time = b.trigger_time

(* C13: the save of a submission (the step that ends the handler) leaves  *)
(* the notified flag and the trigger_time of every alert that is in the   *)
(* file before it and after it as they were.                              *)
C13_SubmitKeepsNotified ==
    [][(spc = "save" /\ spc' = "idle") =>
         \A k \in 1..Len(file.list) : \A j \in 1..Len(file'.list) :
           file.list[k].uid = file'.list[j].uid
             => SameNotification(file.list[k], file'.list[j])]_vars

----------------------------------------------------------------------------
(* Properties of one iteration of the sweep, checked under IterSpec.       *)

(* The record is available and its price is at most the alert's           *)
(* threshold: target_price, or retail_price less discount_rate percent.   *)
Meets(a, data) ==
    /\ Truthy(data) /\ Get(data, "available", FALSE)
    /\ 100 * data.price <= (IF "target_price" \in DOMAIN a THEN 100 * a.target_price
                            ELSE a.retail_price * (100 - a.discount_rate))

(* The store names of the records of datas that meet the alert, in order. *)
RECURSIVE MeetingStores(_, _, _)
MeetingStores(a, datas, k) ==
    IF k > Len(datas) THEN <<>>
    ELSE (IF Meets(a, datas[k]) THEN <<datas[k].store>> ELSE <<>>)
         \o MeetingStores(a, datas, k + 1)

(* C14: in a sweep the gateway is called at most once for an alert; the   *)
(* alert was pending when loaded; the call comes after every store of     *)
(* alert.stores was fetched; its fields are one entry for each store      *)
(* whose record was available with price <= threshold, in the order of    *)
(* the stores; and there is at least one such store.                      *)
C14_OneSendAfterAllStores ==
    /\ \A k1, k2 \in 1..Len(sent) : sent[k1].uid = sent[k2].uid => k1 = k2
    /\ \A k \in 1..Len(sent) :
         \E j \in 1..Len(alerts) :
           /\ alerts[j].uid = sent[k].uid
           /\ ~Get(alerts[j], "notified", FALSE)
           /\ sent[k].stores = Len(alerts[j].stores)
           /\ Len(sent[k].datas) = Len(alerts[j].stores)
           /\ Len(sent[k].fields) >= 1
           /\ [i \in 1..Len(sent[k].fields) |-> sent[k].fields[i].name]
                = MeetingStores(alerts[j], sent[k].datas, 1)

(* The gateway was called for an alert with two stores of which the first *)
(* matched and the second did not.                                        *)
C14_Witness ==
    \E k \in 1..Len(sent) : \E j \in 1..Len(alerts) :
      /\ alerts[j].uid = sent[k].uid
      /\ Len(sent[k].datas) = 2 /\ Len(sent[k].fields) = 1
      /\ Meets(alerts[j], sent[k].datas[1])
      /\ ~Meets(alerts[j], sent[k].datas[2])

----------------------------------------------------------------------------
(* Properties of the selector walk, checked under FetchSpec.               *)

(* The page the call parsed: the answer to its first attempt that met no  *)
(* transport error.                                                       *)
ParsedPage ==
    /\ Returned /\ KnownStore
    /\ FirstAnswer(fin.http) # 0
    /\ fin.http[FirstAnswer(fin.http)].kind = "page"

(* What the k-th price selector of the store yields on the page: PyNone   *)
(* when it matches no element or its text does not parse.                 *)
SelectorPrice(store_key, page, k) ==
    LET el == select_one(page, STORES[store_key].price_selectors[k])
    IN IF el = PyNone THEN PyNone ELSE clean_price_text(get_text(el))

(* C15: a call that parsed a page returns as price the parsed value of    *)
(* the first price selector, in the store's order, whose element text     *)
(* parses to a price; it returns no price only when no selector has such  *)
(* a text.                                                                *)
C15_FirstParsingSelector ==
    ParsedPage =>
      LET page == fin.http[FirstAnswer(fin.http)].page
          n == Len(STORES[fin.store_key].price_selectors)
          P == {k \in 1..n : SelectorPrice(fin.store_key, page, k) # PyNone}
      IN IF P = {} THEN ~Success
         ELSE LET first == CHOOSE k \in P : \A j \in P : k <= j
              IN /\ Success
                 /\ fout.data.price = SelectorPrice(fin.store_key, page, first).value

----------------------------------------------------------------------------
(* Properties of the sweep as a whole, checked under Spec.                 *)

(* C16: the list of a sweep is set by the one load at its start (and      *)
(* dropped by the sleep at its end); the monitoring thread writes the     *)
(* file only in the step that ends the for loop; and a sweep that ends    *)
(* with no exception has written there, once, a list that holds a record  *)
(* of every alert it loaded, each once and in the loaded order.           *)
C16_OneLoadOneSave ==
    /\ [][alerts' # alerts =>
            \/ mpc = "load" /\ alerts' = load_alerts(file)
            \/ mpc = "sleep" /\ alerts' = <<>>]_vars
    /\ [][(file' # file /\ spc' = spc) => (mpc = "for" /\ mpc' = "sleep")]_vars
    /\ [][(mpc = "for" /\ mpc' = "sleep" /\ sweep_end' = "saved") =>
            /\ idx > Len(alerts)
            /\ file'.valid /\ file'.list = updated_alerts
            /\ Len(updated_alerts) = Len(alerts)
            /\ \A j \in 1..Len(alerts) :
                 /\ updated_alerts[j].uid = alerts[j].uid
                 /\ updated_alerts[j].id = alerts[j].id]_vars
    /\ [][(mpc = "for" /\ mpc' = "for") => (file' = file \/ spc' # spc)]_vars

(* A sweep over two alerts has saved. *)
C16_Witness ==
    /\ mpc = "sleep" /\ sweep_end = "saved"
    /\ Len(alerts) = 2 /\ file.list = updated_alerts

----------------------------------------------------------------------------
(* file_lock, lines 35 and 193 to 206: load_alerts and save_alerts step by *)
(* step, for the threads of LockThreads.  A save opens the file for        *)
(* writing, which empties it, and then writes the list; a load that read   *)
(* between the two would find a file that is not JSON.                     *)

MaxListLen == 2   \* length of the lists the threads save

LockRest == <<now, monitor_vars, submit_vars, ever_saved, fetch_vars, rate_vars>>

(* Lock.acquire(): `with file_lock:` goes on only when no thread holds it. *)
CanAcquireAnyway(holder) == TRUE

CanAcquire(holder) == holder = "free"

(* Line 195: load_alerts enters `with file_lock`. *)
LoadEnter(t) ==
    /\ lpc[t] = "out" /\ CanAcquire(file_lock)
    /\ file_lock' = t
    /\ lpc' = [lpc EXCEPT ![t] = "load_locked"]
    /\ UNCHANGED <<file, got, larg, torn, LockRest>>

(* Lines 196 to 200: the file is opened and read. *)
LoadRead(t) ==
    /\ lpc[t] = "load_locked"
    /\ got' = [got EXCEPT ![t] = load_alerts(file)]
    /\ torn' = (torn \/ \E u \in LockThreads : lpc[u] = "save_opened")
    /\ lpc' = [lpc EXCEPT ![t] = "load_read"]
    /\ UNCHANGED <<file, file_lock, larg, LockRest>>

(* The end of `with file_lock` in load_alerts. *)
LoadLeave(t) ==
    /\ lpc[t] = "load_read"
    /\ file_lock' = IF file_lock = t THEN "free" ELSE file_lock
    /\ lpc' = [lpc EXCEPT ![t] = "out"]
    /\ UNCHANGED <<file, got, larg, torn, LockRest>>

(* Line 204: save_alerts enters `with file_lock`; the thread saves the    *)
(* list it loaded (the sweep) or that list with an alert appended         *)
(* (submit).                                                              *)
SaveEnter(t) ==
    /\ lpc[t] = "out" /\ CanAcquire(file_lock)
    /\ file_lock' = t
    /\ \E list \in {got[t]} \cup
                  (IF Len(got[t]) < MaxListLen
                   THEN {Append(got[t], SubmittedAlert(Len(got[t]) + 1))} ELSE {}) :
         larg' = [larg EXCEPT ![t] = list]
    /\ lpc' = [lpc EXCEPT ![t] = "save_locked"]
    /\ UNCHANGED <<file, got, torn, LockRest>>

(* Line 205: open(ALERTS_FILE, 'w') empties the file. *)
SaveOpen(t) ==
    /\ lpc[t] = "save_locked"
    /\ file' = BrokenFile
    /\ lpc' = [lpc EXCEPT ![t] = "save_opened"]
    /\ UNCHANGED <<file_lock, got, larg, torn, LockRest>>

(* Line 206: json.dump(alerts, f, indent=2), and the file is closed. *)
SaveDump(t) ==
    /\ lpc[t] = "save_opened"
    /\ file' = save_alerts(larg[t])
    /\ lpc' = [lpc EXCEPT ![t] = "save_written"]
    /\ UNCHANGED <<file_lock, got, larg, torn, LockRest>>

(* The end of `with file_lock` in save_alerts. *)
SaveLeave(t) ==
    /\ lpc[t] = "save_written"
    /\ file_lock' = IF file_lock = t THEN "free" ELSE file_lock
    /\ lpc' = [lpc EXCEPT ![t] = "out"]
    /\ larg' = [larg EXCEPT ![t] = <<>>]
    /\ UNCHANGED <<file, got, torn, LockRest>>

(* The process after line 520: the file exists and no thread is inside. *)
LockInit == IdleRest /\ RateIdle /\ fin = PyNone /\ fout = PyNone

LockNext ==
    \E t \in LockThreads :
      \/ LoadEnter(t) \/ LoadRead(t) \/ LoadLeave(t)
      \/ SaveEnter(t) \/ SaveOpen(t) \/ SaveDump(t) \/ SaveLeave(t)

LockSpec == LockInit /\ [][LockNext]_vars

(* C17, checked under LockSpec: at most one thread is inside load_alerts  *)
(* or save_alerts, it is the thread that holds file_lock, and no load     *)
(* has read the file between the open and the write of a save: every list *)
(* a load returned is a list that the file held whole.                    *)
C17_LoadSaveExclusive ==
    /\ \A t, u \in LockThreads : (lpc[t] # "out" /\ lpc[u] # "out") => t = u
    /\ \A t \in LockThreads : lpc[t] # "out" => file_lock = t
    /\ ~torn
    /\ (\A t \in LockThreads : lpc[t] # "save_opened") => file.valid

(* One thread is half way through a save while the two others are out,    *)
(* one of them with a list it loaded before.                              *)
C17_Witness ==
    /\ \E t \in LockThreads : lpc[t] = "save_opened" /\ Len(larg[t]) = 2
    /\ \E u \in LockThreads : lpc[u] = "out" /\ Len(got[u]) = 1

----------------------------------------------------------------------------
(* extract_sku, lines 238 to 274.  re.search(pattern, url, re.IGNORECASE)  *)
(* finds the leftmost match, each quantifier greedy, and extract_sku       *)
(* returns group 1: PyNone, or [sku |-> the characters of the group].      *)

(* str.lower() of one character, for re.IGNORECASE. *)
Lower(c) ==
    CASE c = "A" -> "a" [] c = "B" -> "b" [] c = "C" -> "c" [] c = "D" -> "d"
      [] c = "E" -> "e" [] c = "F" -> "f" [] c = "G" -> "g" [] c = "H" -> "h"
      [] c = "I" -> "i" [] c = "J" -> "j" [] c = "K" -> "k" [] c = "L" -> "l"
      [] c = "M" -> "m" [] c = "N" -> "n" [] c = "O" -> "o" [] c = "P" -> "p"
      [] c = "Q" -> "q" [] c = "R" -> "r" [] c = "S" -> "s" [] c = "T" -> "t"
      [] c = "U" -> "u" [] c = "V" -> "v" [] c = "W" -> "w" [] c = "X" -> "x"
      [] c = "Y" -> "y" [] c = "Z" -> "z"
      [] OTHER -> c

LowerLetters == {"a", "b", "c", "d", "e", "f", "g", "h", "i", "j", "k", "l", "m",
                 "n", "o", "p", "q", "r", "s", "t", "u", "v", "w", "x", "y", "z"}

(* The (lower-case) literal lit matches url at position i, case ignored. *)
LitAt(url, i, lit) ==
    /\ i + Len(lit) - 1 <= Len(url)
    /\ \A k \in 1..Len(lit) : Lower(url[i + k - 1]) = lit[k]

Leftmost(S) == CHOOSE i \in S : \A j \in S : i <= j
Rightmost(S) == CHOOSE i \in S : \A j \in S : i >= j

(* Length of the longest run of characters other than "/" from position p. *)
RECURSIVE NonSlashRun(_, _)
NonSlashRun(s, p) ==
    IF p > Len(s) \/ s[p] = "/" THEN 0 ELSE 1 + NonSlashRun(s, p + 1)

(* The run of digits of s that starts at position p. *)
DigitsAt(s, p) == SubSeq(s, p, p + DigitRun(s, p) - 1)

(* Line 248: r'/product/[^/]*-(\d{6,})', with min for the 6.  [^/]* is    *)
(* greedy: of the hyphens of the path segment that are followed by min    *)
(* digits or more, the last one is taken.                                 *)
product_rule_min(url, min) ==
    LET lit == <<"/", "p", "r", "o", "d", "u", "c", "t", "/">>
        n == Len(lit)
        cand(i) == {L \in 0..NonSlashRun(url, i + n) :
                      /\ i + n + L <= Len(url)
                      /\ url[i + n + L] = "-"
                      /\ DigitRun(url, i + n + L + 1) >= min}
        S == {i \in 1..Len(url) : LitAt(url, i, lit) /\ cand(i) # {}}
    IN IF S = {} THEN PyNone
       ELSE LET i == Leftmost(S)
            IN [sku |-> DigitsAt(url, i + n + Rightmost(cand(i)) + 1)]

product_rule_seven(url) == product_rule_min(url, 7)

product_rule(url) == product_rule_min(url, 6)

(* Lines 249 to 253, 255 and 256: a literal, one character of seps, then  *)
(* a run of at least min digits (the group), then, when after is not      *)
(* empty, one character of after.                                         *)
marker_rule(url, lit, seps, min, after) ==
    LET n == Len(lit)
        ok(i) == /\ LitAt(url, i, lit)
                 /\ i + n <= Len(url) /\ url[i + n] \in seps
                 /\ DigitRun(url, i + n + 1) >= min
                 /\ \/ after = {}
                    \/ LET e == i + n + 1 + DigitRun(url, i + n + 1)
                       IN e <= Len(url) /\ url[e] \in after
        S == {i \in 1..Len(url) : ok(i)}
    IN IF S = {} THEN PyNone
       ELSE [sku |-> DigitsAt(url, Leftmost(S) + n + 1)]

(* Line 254: r'dp/([A-Z0-9]{10})', case ignored. *)
asin_rule(url) ==
    LET lit == <<"d", "p", "/">>
        ok(i) == /\ LitAt(url, i, lit)
                 /\ i + 12 <= Len(url)
                 /\ \A k \in 3..12 : Lower(url[i + k]) \in LowerLetters \cup Digits
        S == {i \in 1..Len(url) : ok(i)}
    IN IF S = {} THEN PyNone
       ELSE [sku |-> SubSeq(url, Leftmost(S) + 3, Leftmost(S) + 12)]

(* Line 267: r'(\d{4,})(?=[^/]*$)': the leftmost run of at least min      *)
(* digits with no "/" after it.                                           *)
fallback_rule_min(url, min) ==
    LET S == {p \in 1..Len(url) :
                /\ DigitRun(url, p) >= min
                /\ \A q \in (p + DigitRun(url, p))..Len(url) : url[q] # "/"}
    IN IF S = {} THEN PyNone ELSE [sku |-> DigitsAt(url, Leftmost(S))]

fallback_rule_any(url) == fallback_rule_min(url, 1)

fallback_rule(url) == fallback_rule_min(url, 4)

(* Lines 247 to 257: the patterns, in order, applied to url. *)
patterns(url) ==
    << product_rule(url),
       marker_rule(url, <<>>, {"/"}, 7, {}),
       marker_rule(url, <<"s", "k", "u">>, {"-", "=", "_"}, 1, {}),
       marker_rule(url, <<"p">>, {"-", "=", "_"}, 1, {}),
       marker_rule(url, <<"i", "t", "e", "m", "c", "o", "d", "e">>, {"=", "-"}, 1, {}),
       marker_rule(url, <<"p", "r", "o", "d", "u", "c", "t">>, {"/", "-"}, 1, {}),
       asin_rule(url),
       marker_rule(url, <<>>, {"/"}, 5, {"/", "?"}),
       marker_rule(url, <<"i", "t", "e", "m">>, {"/"}, 1, {}) >>

(* Lines 259 to 264: the group of the first pattern that matches. *)
RECURSIVE first_match(_, _)
first_match(results, k) ==
    IF k > Len(results) THEN PyNone
    ELSE IF results[k] # PyNone THEN results[k]
    ELSE first_match(results, k + 1)

extract_sku(url) ==
    IF url = <<>> THEN PyNone
    ELSE LET stripped == Strip(url)
             match == first_match(patterns(stripped), 1)
         IN IF match # PyNone THEN match ELSE fallback_rule(stripped)

----------------------------------------------------------------------------
(* The URLs extract_sku is applied to: a base followed by up to MaxPieces *)
(* pieces.                                                                *)

MaxPieces == 3   \* pieces after the base of a URL

UrlBase == <<"h", "t", "t", "p", "s", ":", "/", "/", "s", "h", "o", "p", ".", "c", "o", "m">>

PcProductName == <<"/", "p", "r", "o", "d", "u", "c", "t", "/", "n", "a", "m", "e", "-">>
PcProductUpper == <<"/", "P", "R", "O", "D", "U", "C", "T", "/", "N", "a", "m", "e", "-">>
PcProduct == <<"/", "p", "r", "o", "d", "u", "c", "t", "/">>
Pc6 == <<"1", "2", "3", "4", "5", "6">>
Pc7 == <<"1", "2", "3", "4", "5", "6", "7">>
Pc5 == <<"1", "2", "3", "4", "5">>
Pc4 == <<"1", "2", "3", "4">>
Pc3 == <<"1", "2", "3">>
PcSku == <<"?", "s", "k", "u", "=", "1", "2">>
PcP == <<"/", "p", "-", "7", "7">>
PcItem == <<"/", "i", "t", "e", "m", "/", "9">>
PcItemcode == <<"?", "i", "t", "e", "m", "c", "o", "d", "e", "=", "5">>
PcAsin == <<"/", "d", "p", "/", "B", "0", "0", "A", "B", "C", "D", "E", "F", "G">>
PcSlash == <<"/">>
PcQuery == <<"?">>
PcBlank == <<" ">>

UrlPieces == {PcProductName, PcProductUpper, PcProduct, Pc6, Pc7, Pc5, Pc4, Pc3, PcSku,
              PcP, PcItem, PcItemcode, PcAsin, PcSlash, PcQuery, PcBlank}

RECURSIVE UrlTails(_)
UrlTails(n) ==
    IF n = 0 THEN {<<>>}
    ELSE UrlTails(n - 1) \cup {t \o p : t \in UrlTails(n - 1), p \in UrlPieces}

Urls == {UrlBase \o t : t \in UrlTails(MaxPieces)} \cup {<<>>}

(* Specification of one extract_sku call. *)
ExtractInit ==
    /\ IdleRest /\ RateIdle
    /\ fin \in {[url |-> u] : u \in Urls}
    /\ fout = PyNone

ExtractCall ==
    /\ fout = PyNone
    /\ fout' = [result |-> extract_sku(fin.url)]
    /\ UNCHANGED <<now, file, monitor_vars, submit_vars, ever_saved, fin,
                   lock_vars, rate_vars>>

ExtractNext == ExtractCall

ExtractSpec == ExtractInit /\ [][ExtractNext]_vars

----------------------------------------------------------------------------
(* Properties of extract_sku, checked under ExtractSpec.                   *)

(* The url holds a run of at least n digits. *)
HasDigitRun(url, n) == \E p \in 1..Len(url) : DigitRun(url, p) >= n

(* The url holds one of the markers of lines 250 to 256 followed by a     *)
(* digit (sku, p, itemcode, product or item and its separator), or dp/    *)
(* followed by ten letters or digits.                                     *)
HasMarker(url) ==
    \/ \E i \in 1..Len(url) :
         \E m \in { [lit |-> <<"s", "k", "u">>, seps |-> {"-", "=", "_"}],
                    [lit |-> <<"p">>, seps |-> {"-", "=", "_"}],
                    [lit |-> <<"i", "t", "e", "m", "c", "o", "d", "e">>,
                     seps |-> {"=", "-"}],
                    [lit |-> <<"p", "r", "o", "d", "u", "c", "t">>,
                     seps |-> {"/", "-"}],
                    [lit |-> <<"i", "t", "e", "m">>, seps |-> {"/"}] } :
           /\ LitAt(url, i, m.lit)
           /\ i + Len(m.lit) + 1 <= Len(url)
           /\ url[i + Len(m.lit)] \in m.seps
           /\ url[i + Len(m.lit) + 1] \in Digits
    \/ \E i \in 1..Len(url) :
         /\ LitAt(url, i, <<"d", "p", "/">>)
         /\ i + 12 <= Len(url)
         /\ \A k \in 3..12 : Lower(url[i + k]) \in LowerLetters \cup Digits

(* C18 as stated: for a url with no run of four digits or more,           *)
(* extract_sku returns None.                                              *)
C18_NoFourDigitsNotFound ==
    (Returned /\ ~HasDigitRun(fin.url, 4)) => fout.result = PyNone

(* C18 amended: for a url with no run of four digits or more, extract_sku *)
(* returns None exactly when the url holds none of the markers; with a    *)
(* marker it returns an identifier shorter than four digits, or the ten   *)
(* characters after dp/.                                                  *)
C18_NotFoundWithoutMarker ==
    (Returned /\ ~HasDigitRun(fin.url, 4)) =>
      /\ fout.result = PyNone <=> ~HasMarker(Strip(fin.url))
      /\ fout.result # PyNone =>
           \/ Len(fout.result.sku) \in 1..3 /\ \A k \in 1..Len(fout.result.sku) :
                                                 fout.result.sku[k] \in Digits
           \/ Len(fout.result.sku) = 10

(* extract_sku returned None for a url whose longest run of digits has    *)
(* three digits and that holds no marker.                                 *)
C18_Witness ==
    /\ Returned /\ ~HasDigitRun(fin.url, 4) /\ HasDigitRun(fin.url, 3)
    /\ ~HasMarker(Strip(fin.url))
    /\ fout.result = PyNone

(* The url holds /product/ (case ignored), then a path segment in which a *)
(* hyphen at position h is followed by a run of six digits or more.       *)
ProductForm(url, h) ==
    \E i \in 1..Len(url) :
      /\ LitAt(url, i, <<"/", "p", "r", "o", "d", "u", "c", "t", "/">>)
      /\ h >= i + 9 /\ h <= Len(url)
      /\ \A q \in (i + 9)..h : url[q] # "/"
      /\ url[h] = "-"
      /\ DigitRun(url, h + 1) >= 6

(* C19: for a url that holds the form /product/<name>-<digits> with six   *)
(* digits or more, extract_sku returns the run of digits of such a form,  *)
(* whatever other pattern the url matches; for a url that holds the form  *)
(* once it returns that run (/product/name-123456 gives 123456).          *)
C19_ProductFormFirst ==
    (Returned /\ \E h \in 1..Len(fin.url) : ProductForm(Strip(fin.url), h)) =>
      /\ fout.result # PyNone
      /\ \E h \in 1..Len(fin.url) :
           /\ ProductForm(Strip(fin.url), h)
           /\ fout.result.sku = DigitsAt(Strip(fin.url), h + 1)
      /\ fin.url = UrlBase \o PcProductName \o Pc6 => fout.result.sku = Pc6

(* extract_sku returned for a url that holds the form and, after it, a    *)
(* marker of a later pattern.                                             *)
C19_Witness ==
    /\ Returned
    /\ fin.url = UrlBase \o PcProductName \o Pc6 \o PcSku
    /\ fout.result # PyNone

----------------------------------------------------------------------------
(* The texts clean_price_text is applied to: the examples, and every text *)
(* of at most MaxTextLen characters of PriceChars.                        *)

MaxTextLen == 4   \* length of the texts given to clean_price_text

PriceChars == {"$", "1", "5", "0", ",", ".", "F", " "}

Txt123456 == <<"$", "1", ",", "2", "3", "4", ".", "5", "6">>

RECURSIVE TextsUpTo(_)
TextsUpTo(n) ==
    IF n = 0 THEN {<<>>}
    ELSE TextsUpTo(n - 1) \cup {Append(t, c) : t \in TextsUpTo(n - 1), c \in PriceChars}

PriceTexts == TextsUpTo(MaxTextLen) \cup {Txt123456, TxtFree, Txt1999, Txt90}

(* Specification of one clean_price_text call. *)
ParseInit ==
    /\ IdleRest /\ RateIdle
    /\ fin \in {[price_text |-> t] : t \in PriceTexts}
    /\ fout = PyNone

ParseCall ==
    /\ fout = PyNone
    /\ fout' = [result |-> clean_price_text(fin.price_text)]
    /\ UNCHANGED <<now, file, monitor_vars, submit_vars, ever_saved, fin,
                   lock_vars, rate_vars>>

ParseNext == ParseCall

ParseSpec == ParseInit /\ [][ParseNext]_vars

(* The text holds a digit. *)
HasDigit(text) == \E k \in 1..Len(text) : text[k] \in Digits

(* C20, checked under ParseSpec: clean_price_text("$1,234.56") is 1234.56 *)
(* (123456 cents), and for a text that is empty or holds no digit the     *)
(* result is None, not a number.                                          *)
C20_ParseOrNotFound ==
    Returned =>
      /\ fin.price_text = Txt123456 => fout.result = [value |-> 123456]
      /\ ~HasDigit(fin.price_text) => fout.result = PyNone

(* clean_price_text returned None for a text that holds characters but no *)
(* digit.                                                                 *)
C20_Witness ==
    /\ Returned /\ fin.price_text = TxtFree
    /\ fout.result = PyNone

----------------------------------------------------------------------------
(* The requests of get_store_price in time, lines 384, 437 and 443: the    *)
(* calls of the monitoring thread (line 481) and of a submission (line     *)
(* 883), each replayed request by request and sleep by sleep.  Time is    *)
(* kept as the seconds a sleep has left (nap) and the seconds since the   *)
(* last request to a host (ago); it passes in whole seconds while a       *)
(* thread sleeps.  A request takes no time of its own, which is the least *)
(* time the code lets pass between two requests.                          *)

MaxRateAlerts == 1   \* alerts the sweep goes through
MaxClock == 3        \* seconds counted since a request; more count as this

(* The answers of the network to the attempts of a call. *)
RateResponses ==
    { RespTransport, RespError,
      RespPage(MakePage(El(Txt75), PyNone, El(TxtMilk))),
      RespPage(MakePage(El(TxtFree), PyNone, PyNone)) }

RateHttp == [1..MAX_RETRIES -> RateResponses]

(* The alerts of the file the sweep goes through: pending with one store, *)
(* pending with every store, notified.                                    *)
RateAlertsAt(uid) ==
    {RateAlert(uid), Put(RateAlert(uid), "stores", StoreKeys), NotifiedAlert(uid)}

RateFiles ==
    UNION {{f \in [1..n -> UNION {RateAlertsAt(u) : u \in 1..n}] :
              \A k \in 1..n : f[k] \in RateAlertsAt(k)} : n \in 0..MaxRateAlerts}

(* Lines 465 to 481: the store keys a sweep over list passes to           *)
(* get_store_price, in order.                                             *)
RECURSIVE SweepCalls(_)
SweepCalls(list) ==
    IF list = <<>> THEN <<>>
    ELSE (IF IsNotified(Head(list)) THEN <<>> ELSE Get(Head(list), "stores", <<>>))
         \o SweepCalls(Tail(list))

(* Lines 882 and 883: the store keys a submission passes, in order. *)
SubmitCalls == StoreKeys

RateInit ==
    /\ IdleRest /\ fin = PyNone /\ fout = PyNone
    /\ calls \in {[t \in RateThreads |-> IF t = "monitor" THEN m ELSE w] :
                    m \in {SweepCalls(f) : f \in RateFiles},
                    w \in {<<>>, SubmitCalls}}
    /\ rio = [t \in RateThreads |-> <<>>]
    /\ nap = [t \in RateThreads |-> 0]
    /\ ago = [s \in DOMAIN STORES |-> PyNone]
    /\ closest = [s \in DOMAIN STORES |-> PyNone]

RateRest == <<now, file, monitor_vars, submit_vars, ever_saved, fetch_vars,
              lock_vars>>

(* The thread is not inside a time.sleep. *)
Awake(t) == nap[t] = 0

(* Lines 481 and 883: the thread calls get_store_price for its next store *)
(* key; what the network answers decides the requests and sleeps of the   *)
(* call.                                                                  *)
RateCall(t) ==
    /\ Awake(t) /\ rio[t] = <<>> /\ calls[t] # <<>>
    /\ \E http \in RateHttp :
         rio' = [rio EXCEPT ![t] =
                   get_store_price(Head(calls[t]), Sku123456, MAX_RETRIES, http).io]
    /\ calls' = [calls EXCEPT ![t] = Tail(calls[t])]
    /\ UNCHANGED <<nap, ago, closest, RateRest>>

(* Line 384: requests.get(search_url, ...) to the host of the store. *)
RateGet(t) ==
    /\ Awake(t) /\ rio[t] # <<>> /\ Head(rio[t]).op = "get"
    /\ LET s == Head(rio[t]).store
       IN /\ ago' = [ago EXCEPT ![s] = [secs |-> 0]]
          /\ closest' =
               IF ago[s] = PyNone THEN closest
               ELSE IF closest[s] = PyNone
                    THEN [closest EXCEPT ![s] = ago[s]]
               ELSE IF ago[s].secs < closest[s].secs
                    THEN [closest EXCEPT ![s] = ago[s]]
               ELSE closest
    /\ rio' = [rio EXCEPT ![t] = Tail(rio[t])]
    /\ UNCHANGED <<calls, nap, RateRest>>

(* Lines 437 and 443: time.sleep(secs) begins. *)
RateSleep(t) ==
    /\ Awake(t) /\ rio[t] # <<>> /\ Head(rio[t]).op = "sleep"
    /\ nap' = [nap EXCEPT ![t] = Head(rio[t]).secs]
    /\ rio' = [rio EXCEPT ![t] = Tail(rio[t])]
    /\ UNCHANGED <<calls, ago, closest, RateRest>>

(* A second passes while some thread is inside a time.sleep: the sleeps   *)
(* have a second less to go and the last requests are a second older.     *)
RateTick ==
    /\ \E t \in RateThreads : ~Awake(t)
    /\ nap' = [t \in RateThreads |-> IF nap[t] > 0 THEN nap[t] - 1 ELSE 0]
    /\ ago' = [s \in DOMAIN STORES |->
                IF ago[s] = PyNone THEN PyNone
                ELSE [secs |-> Min(ago[s].secs + 1, MaxClock)]]
    /\ UNCHANGED <<calls, rio, closest, RateRest>>

RateNext ==
    \/ \E t \in RateThreads : RateCall(t) \/ RateGet(t) \/ RateSleep(t)
    \/ RateTick

RateSpec == RateInit /\ [][RateNext]_vars

(* C21, checked under RateSpec: two successive requests to the host of    *)
(* one store are at least RATE_LIMIT_DELAY seconds apart, whichever       *)
(* thread made them and however the earlier call ended.                   *)
C21_RequestsSpaced ==
    \A s \in DOMAIN STORES :
      closest[s] # PyNone => closest[s].secs >= RATE_LIMIT_DELAY

----------------------------------------------------------------------------
(* Properties of the name and of a zero price, checked under FetchSpec.    *)

(* The text the k-th name selector of the store yields on the page: <<>>  *)
(* when it matches no element.                                            *)
SelectorName(store_key, page, k) ==
    LET el == select_one(page, STORES[store_key].name_selectors[k])
    IN IF el = PyNone THEN <<>> ELSE get_text(el)

(* C22: the name of an available record is the text, cut to 100           *)
(* characters, of the first name selector whose text is longer than 3     *)
(* characters, or "Product {sku}" when no selector has such a text; it is *)
(* never a text of 3 characters or fewer.                                 *)
C22_NameLongOrLabel ==
    (ParsedPage /\ Success) =>
      LET page == fin.http[FirstAnswer(fin.http)].page
          n == Len(STORES[fin.store_key].name_selectors)
          L == {k \in 1..n : Len(SelectorName(fin.store_key, page, k)) > 3}
      IN /\ Len(fout.data.name) > 3
         /\ IF L = {} THEN fout.data.name = Prefix(ProductLabel(fin.sku), 100)
            ELSE LET first == CHOOSE k \in L : \A j \in L : k <= j
                 IN fout.data.name =
                      Prefix(SelectorName(fin.store_key, page, first), 100)

(* C23: when the first price selector of the store that finds an element  *)
(* on the page finds a text that parses to 0, the call returns an         *)
(* available record with price 0.                                         *)
C23_ZeroPriceIsAvailable ==
    ParsedPage =>
      LET page == fin.http[FirstAnswer(fin.http)].page
          n == Len(STORES[fin.store_key].price_selectors)
          E == {k \in 1..n :
                  select_one(page, STORES[fin.store_key].price_selectors[k]) # PyNone}
      IN (E # {} /\ SelectorPrice(fin.store_key, page,
                                  CHOOSE k \in E : \A j \in E : k <= j)
                      = [value |-> 0])
         => (Success /\ fout.data.price = 0)

----------------------------------------------------------------------------
(* Properties of what a sweep changes in an alert, checked under Spec.     *)

(* The keys a sweep is not to touch. *)
IdentityKeys == {"id", "url", "sku", "retail_price", "target_price", "stores"}

(* The two records hold the same keys of IdentityKeys with the same       *)
(* values.                                                                *)
SameIdentity(a, b) ==
    \A key \in IdentityKeys :
      /\ (key \in DOMAIN a) = (key \in DOMAIN b)
      /\ (key \in DOMAIN a /\ key \in DOMAIN b) => a[key] = b[key]

(* C24: the record a sweep makes of a pending alert for which no store    *)
(* returned a record that meets its target is the alert as loaded         *)
(* (notified false, no trigger_time stamped); the record a sweep makes of *)
(* any alert has the id, url, sku, retail_price, target_price and stores  *)
(* it was loaded with; and the save of a sweep changes none of them in    *)
(* an alert that is in the file before and after it.                      *)
C24_NoMatchUnchanged ==
    /\ [](\A j \in 1..Len(updated_alerts) :
            /\ (~IsNotified(alerts[j]) /\ alerts[j].uid \notin hits)
                 => /\ updated_alerts[j] = alerts[j]
                    /\ ~updated_alerts[j].notified
            /\ SameIdentity(alerts[j], updated_alerts[j]))
    /\ [][(mpc = "for" /\ mpc' = "sleep") =>
            \A k \in 1..Len(file.list) : \A j \in 1..Len(file'.list) :
              file.list[k].uid = file'.list[j].uid
                => SameIdentity(file.list[k], file'.list[j])]_vars

(* A sweep has saved a pending alert whose stores it fetched and none of  *)
(* which met the target, as it was loaded.                                *)
C24_Witness ==
    /\ mpc = "sleep" /\ sweep_end = "saved"
    /\ \E j \in 1..Len(alerts) :
         /\ ~IsNotified(alerts[j])
         /\ alerts[j].uid \in fetched /\ alerts[j].uid \notin hits
         /\ file.list[j] = alerts[j]
         /\ "trigger_time" \notin DOMAIN file.list[j]

----------------------------------------------------------------------------
(* Properties of the retry loop, checked under FetchSpec.                  *)

(* C25: a call makes at most MAX_RETRIES requests; it makes a further     *)
(* request only after a request that met a transport error, so the        *)
(* requests are those up to the first answer that is not one; a page      *)
(* with no price and an unexpected exception end the call there, with no  *)
(* sleep after that request: the sleeps of the call are the backoffs      *)
(* after the transport errors, and the rate-limit delay when a price was  *)
(* found.                                                                 *)
C25_RetryOnlyAfterTransport ==
    (Returned /\ KnownStore) =>
      LET k == FirstAnswer(fin.http)
          backoffs(n) == [i \in 1..n |-> 2 ^ (i - 1)]
      IN /\ Requests(fout.io) <= MAX_RETRIES
         /\ Requests(fout.io) = (IF k = 0 THEN MAX_RETRIES ELSE k)
         /\ (k # 0 /\ ~Success) =>
              /\ fout.io[Len(fout.io)].op = "get"
              /\ Sleeps(fout.io) = backoffs(k - 1)
         /\ Success =>
              Sleeps(fout.io) = Append(backoffs(k - 1), RATE_LIMIT_DELAY)

(* A call whose first attempt met a transport error and whose second met  *)
(* a page with no price has returned after two requests.                  *)
C25_Witness ==
    /\ Returned /\ KnownStore
    /\ FirstAnswer(fin.http) = 2 /\ fin.http[2].kind = "page"
    /\ ~Success /\ Requests(fout.io) = 2

----------------------------------------------------------------------------
(* Properties of the notified flag and of the ids, checked under Spec and  *)
(* IdSpec.                                                                 *)

(* C26: every alert of the file, and of the list a sweep is about to      *)
(* save, whose notified is true holds a trigger_time; the alert a         *)
(* submission creates has notified false and no trigger_time, and so has  *)
(* the alert its save appends to the file.                                *)
C26_NotifiedHasTriggerTime ==
    /\ [](\A k \in 1..Len(file.list) :
            Get(file.list[k], "notified", FALSE)
              => "trigger_time" \in DOMAIN file.list[k])
    /\ [](\A k \in 1..Len(updated_alerts) :
            Get(updated_alerts[k], "notified", FALSE)
              => "trigger_time" \in DOMAIN updated_alerts[k])
    /\ [](new_alert # PyNone =>
            /\ new_alert.notified = FALSE
            /\ "trigger_time" \notin DOMAIN new_alert)
    /\ [][(spc = "save" /\ spc' = "idle" /\ file' # file) =>
            /\ file'.list = Append(salerts, new_alert)
            /\ file'.list[Len(file'.list)].notified = FALSE
            /\ "trigger_time" \notin DOMAIN file'.list[Len(file'.list)]]_vars

(* The file holds an alert that a sweep of this run notified and an alert *)
(* that a submission of this run created.                                 *)
C26_Witness ==
    /\ \E k \in 1..Len(file.list) :
         /\ Get(file.list[k], "notified", FALSE)
         /\ "trigger_time" \in DOMAIN file.list[k]
         /\ file.list[k].trigger_time >= 0
    /\ \E k \in 1..Len(file.list) :
         /\ file.list[k].uid >= 100
         /\ ~file.list[k].notified

(* Specification of the program while it serves two submissions between  *)
(* and during its sweeps: the count of submissions starts two short of    *)
(* MaxSubmits.                                                            *)
IdInit ==
    /\ now = 0
    /\ file \in {save_alerts(list) : list \in InitFiles}
    /\ ever_saved = Uids(file.list)
    /\ last_ok = SentBefore(file.list)
    /\ mpc = "load" /\ alerts = <<>> /\ idx = 1 /\ updated_alerts = <<>>
    /\ spc = "idle" /\ new_alert = PyNone /\ salerts = <<>>
    /\ sweeps = 0 /\ submits = MaxSubmits - 2
    /\ sweep_end = "none" /\ load_failed = FALSE
    /\ fetched = {} /\ hits = {} /\ sent = <<>>
    /\ fin = PyNone /\ fout = PyNone
    /\ LockIdle /\ RateIdle

IdSpec == IdInit /\ [][Next]_vars

(* C27, checked under IdSpec: no two alerts of the file have the same id. *)
C27_IdsUnique ==
    \A j, k \in 1..Len(file.list) :
      file.list[j].id = file.list[k].id => j = k

====
